---- MODULE Spec2Model ----
(***************************************************************************)
(* A model of ori.poolchain.PoolChain: the builder (add, add_threadpool,   *)
(* add_processpool) and the execution of a chain over an input iterable    *)
(* (execute_lazy, execute_eager and the single-threaded variants).         *)
(***************************************************************************)
EXTENDS Integers, Sequences, FiniteSets, TLC

(***************************************************************************)
(* Bounds of the model.                                                    *)
(***************************************************************************)
MaxChain == 2

MaxStages == 2

MaxItems == 2

(***************************************************************************)
(* Python values passed as arguments.  A value is a record of its Python   *)
(* type and an integer payload, so that isinstance(x, int) and x < 1 are   *)
(* computed as the interpreter computes them.                              *)
(***************************************************************************)
PyNone == [type |-> "NoneType", val |-> 0]

PyInt(n) == [type |-> "int", val |-> n]

PyFloat(n) == [type |-> "float", val |-> n]

\* isinstance(v, int): bool is a subclass of int.
IsInstanceInt(v) == v.type \in {"int", "bool"}

(***************************************************************************)
(* The objects passed as `function`.                                       *)
(*   double, inc      functions defined with def                           *)
(*   failing          a def function that raises for an input in BadValues *)
(*   lambda_times10   lambda num: num * 10                                 *)
(*   five             the integer 5: not callable, no __name__             *)
(*   module           a module object: it has a __name__, is not callable  *)
(***************************************************************************)
DefFunctions == {"double", "inc", "failing"}

HasNameAttr(f) == f \in DefFunctions \cup {"lambda_times10", "module"}

NameOf(f) == IF f = "lambda_times10" THEN "<lambda>" ELSE f

IsCallable(f) == f \in DefFunctions \cup {"lambda_times10"}

(***************************************************************************)
(* The objects passed as `executor_class`.                                 *)
(*   ThreadPoolExecutor, ProcessPoolExecutor   the concurrent.futures      *)
(*                                             classes                     *)
(*   executor_instance   a ThreadPoolExecutor() instance: has map, is no   *)
(*                       class                                             *)
(*   int                 a class with no map attribute                     *)
(***************************************************************************)
IsType(e) == e \in {"ThreadPoolExecutor", "ProcessPoolExecutor", "int"}

HasMap(e) == e \in {"ThreadPoolExecutor", "ProcessPoolExecutor", "executor_instance"}

(***************************************************************************)
(* _ChainElement: the record add appends.                                  *)
(***************************************************************************)
ChainElement(function, executor_class, max_workers, timeout, chunksize) ==
    [function |-> function, executor_class |-> executor_class,
     max_workers |-> max_workers, timeout |-> timeout, chunksize |-> chunksize]

(***************************************************************************)
(* The validation of one integer limit (max_workers or timeout): TRUE when *)
(* the code raises OriValidationError for it.                              *)
(***************************************************************************)
LimitRejected(v) ==
    /\ v # PyNone
    /\ \/ ~IsInstanceInt(v)
       \/ v.val < 1

(***************************************************************************)
(* The outcome of PoolChain.add, in the order of the code's checks:        *)
(* "ok", "OriValidationError", or "AttributeError" (function.__name__ of   *)
(* an object that has none).                                               *)
(***************************************************************************)
AddOutcome(a) ==
    IF ~IsType(a.executor_class) THEN "OriValidationError"
    ELSE IF ~HasMap(a.executor_class) THEN "OriValidationError"
    ELSE IF ~HasNameAttr(a.function) THEN "AttributeError"
    ELSE IF NameOf(a.function) = "<lambda>"
            /\ a.executor_class = "ProcessPoolExecutor" THEN "OriValidationError"
    ELSE IF LimitRejected(a.max_workers) THEN "OriValidationError"
    ELSE IF LimitRejected(a.timeout) THEN "OriValidationError"
    ELSE "ok"

\* The call reaches the max_workers / timeout checks (lines 127-143).
ReachesLimitChecks(a) ==
    /\ IsType(a.executor_class)
    /\ HasMap(a.executor_class)
    /\ HasNameAttr(a.function)
    /\ ~(NameOf(a.function) = "<lambda>" /\ a.executor_class = "ProcessPoolExecutor")

\* Faulty variants of ChainAfterAdd: the append placed before the checks, and
\* an insertion at the front instead of an append.
AppendBeforeValidation(c, a) ==
    Append(c, ChainElement(a.function, a.executor_class, a.max_workers,
                           a.timeout, a.chunksize))

PrependOnSuccess(c, a) ==
    IF AddOutcome(a) = "ok"
    THEN <<ChainElement(a.function, a.executor_class, a.max_workers,
                        a.timeout, a.chunksize)>> \o c
    ELSE c

\* self.chain after add(a) on the stage list c.
ChainAfterAdd(c, a) ==
    IF AddOutcome(a) = "ok"
    THEN Append(c, ChainElement(a.function, a.executor_class, a.max_workers,
                                a.timeout, a.chunksize))
    ELSE c

\* What add returns: the PoolChain itself, or nothing when it raised.
AddReturn(a) == IF AddOutcome(a) = "ok" THEN "self" ELSE "raised"

(***************************************************************************)
(* The arguments the builder is called with.  Four families: every        *)
(* function with every executor_class; every max_workers with every        *)
(* timeout; every chunksize with both pool classes; every max_workers with *)
(* a function object that has no __name__.                                 *)
(***************************************************************************)
FunctionArgs == {"double", "lambda_times10", "five", "module"}

ExecutorArgs == {"ThreadPoolExecutor", "ProcessPoolExecutor", "executor_instance", "int"}

LimitArgs == {PyNone, PyInt(-1), PyInt(0), PyInt(1), PyFloat(2)}

ChunksizeArgs == {PyInt(1), PyInt(0), PyInt(2)}

CallArgs(function, executor_class, max_workers, timeout, chunksize) ==
    [function |-> function, executor_class |-> executor_class,
     max_workers |-> max_workers, timeout |-> timeout, chunksize |-> chunksize]

AddArgs ==
    {CallArgs(f, e, PyNone, PyNone, PyInt(1)) : f \in FunctionArgs, e \in ExecutorArgs}
    \cup {CallArgs("double", "ThreadPoolExecutor", m, t, PyInt(1)) :
             m \in LimitArgs, t \in LimitArgs}
    \cup {CallArgs("double", e, PyNone, PyNone, c) :
             e \in {"ThreadPoolExecutor", "ProcessPoolExecutor"}, c \in ChunksizeArgs}
    \cup {CallArgs("five", "ThreadPoolExecutor", m, PyNone, PyInt(1)) : m \in LimitArgs}

\* An argument the caller did not pass.
NotGiven == [type |-> "absent", val |-> 0]

\* add_threadpool(function, max_workers=, timeout=), and the calls that pass
\* it the chunksize= keyword of add, which its signature does not have.
ThreadpoolArgs ==
    {<<f, PyNone, PyNone, NotGiven>> : f \in FunctionArgs}
    \cup {<<"double", m, t, NotGiven>> : m \in LimitArgs, t \in LimitArgs}
    \cup {<<"double", PyNone, PyNone, c>> : c \in ChunksizeArgs}

\* add_processpool(function, max_workers=, timeout=, chunksize=)
ProcesspoolArgs ==
    {<<f, PyNone, PyNone, PyInt(1)>> : f \in FunctionArgs}
    \cup {<<"double", m, t, PyInt(1)>> : m \in LimitArgs, t \in LimitArgs}
    \cup {<<"double", PyNone, PyNone, c>> : c \in ChunksizeArgs}

NoArgs == CallArgs("none", "none", PyNone, PyNone, PyInt(1))

\* The arguments a caller passed to a convenience operation.
Given(t) ==
    [function |-> t[1], max_workers |-> t[2], timeout |-> t[3], chunksize |-> t[4]]

\* The arguments of a call of add itself, as its caller passed them.
GivenToAdd(a) ==
    [function |-> a.function, max_workers |-> a.max_workers,
     timeout |-> a.timeout, chunksize |-> a.chunksize]

\* Faulty variant of ProcesspoolCall: the chunksize is not handed on.
ProcesspoolCallDropsChunksize(t) ==
    CallArgs(t[1], "ProcessPoolExecutor", t[2], t[3], PyInt(1))

\* The call of self.add that add_threadpool and add_processpool make.
ThreadpoolCall(t) == CallArgs(t[1], "ThreadPoolExecutor", t[2], t[3], PyInt(1))

ProcesspoolCall(t) == CallArgs(t[1], "ProcessPoolExecutor", t[2], t[3], t[4])

(***************************************************************************)
(* The stage functions, applied to one element: [ok, val].  ok = FALSE is  *)
(* an exception raised by the call (failing on BadValues; calling an      *)
(* object that is not callable).                                           *)
(***************************************************************************)
BadValues == {2}

Apply(f, x) ==
    CASE f = "double"         -> [ok |-> TRUE, val |-> 2 * x]
      [] f = "inc"            -> [ok |-> TRUE, val |-> x + 1]
      [] f = "lambda_times10" -> [ok |-> TRUE, val |-> 10 * x]
      [] f = "failing"        -> [ok |-> x \notin BadValues, val |-> x]
      [] OTHER                -> [ok |-> FALSE, val |-> x]

VARIABLES
    chain,      \* PoolChain.chain: the list of _ChainElement
    lastCall,   \* the last builder call: its name, arguments, outcome, return
    accepted,   \* history: the stages of the successful builder calls, in call order
    input,      \* the iterable passed to execute_*
    consumed,   \* how many elements of the input have been taken from it
    call,       \* which execute_* method was called: "none" before the call
    pc,         \* where the execute_lazy generator is
    stage,      \* index into self.chain of the generator's stage loop
    pos,        \* element (or, while shutting down, executor) the generator is at
    chunkbuf,   \* elements map has pulled for a chunk not yet submitted
    executors,  \* the local list `executors`: the pools created, in order
    futures,    \* futures[k]: the futures map submitted to the pool of stage k
    out,        \* the items the generator has yielded to its consumer
    error,      \* the exception the generator raised, "none" if none
    raisedAt,   \* where the generator was when it raised: the pc it had
    eager       \* execute_eager's call: its status and the list it returned

VARIABLES
    current_val, \* the local current_val of execute_lazy_single_threaded
    fcalls,      \* the calls of stage functions made in the calling thread, in order
    late         \* the stages add has appended since the execute_* call

VARIABLES
    runs,       \* runs[r]: the generator of the r-th execute_* call on the PoolChain
    pools       \* every pool object constructed so far, by identity

VARIABLES
    wrapper,     \* the function run_in_background returned, "none" before the call
    bgExecutors, \* the executor objects run_in_background has constructed
    bgFutures,   \* the futures submit has returned, by identity
    bgCalls,     \* the calls of the wrapper: the argument and the future returned
    bgResults    \* bgResults[j]: what result() on the future of call j gave

VARIABLES
    syncCall,    \* the call sync(awaitable, event_loop): status, loop used, outcome
    task,        \* the task run_until_complete made of the awaitable
    loopReady    \* other callbacks ready on the loop that runs the task

VARIABLES
    procArgs,    \* the arguments of run_process_in_background
    ctl,         \* the control process running _target: where it is, how it ended
    child,       \* the command process: its state, its ends of the pipes
    inherited,   \* the streams whose write end a descendant of the command holds
    pipes,       \* pipes[s]: the data written to stream s and not yet read
    written,     \* written[s]: all the data the command has written to stream s
    delivered,   \* delivered[s]: the data passed to the callback of stream s
    ready,       \* the keys sel.select() returned that the for loop has not taken
    excCalls,    \* the exceptions exception_function was called with
    signalsSent  \* how many signals the control process has been sent

buildVars == <<chain, lastCall, accepted>>

procVars == <<procArgs, ctl, child, inherited, pipes, written, delivered, ready, excCalls,
              signalsSent>>

syncVars == <<syncCall, task, loopReady>>

runVars == <<runs, pools>>

singleVars == <<current_val, fcalls, late>>

bgVars == <<wrapper, bgExecutors, bgFutures, bgCalls, bgResults>>

\* The variables of the other parts of the package, which the builder and one
\* execution leave alone.
otherVars == <<singleVars, runVars, bgVars, syncVars, procVars>>

execVars == <<input, consumed, call, pc, stage, pos, chunkbuf, executors,
              futures, out, error, raisedAt, eager>>

vars == <<chain, lastCall, accepted, input, consumed, call, pc, stage, pos,
          chunkbuf, executors, futures, out, error, raisedAt, eager, current_val, fcalls, late,
          runs, pools, wrapper, bgExecutors, bgFutures, bgCalls, bgResults,
          syncCall, task, loopReady,
          procArgs, ctl, child, inherited, pipes, written, delivered, ready,
          excCalls, signalsSent>>

\* No execute_* call has been made.
ExecIdle ==
    /\ consumed = 0
    /\ call = "none"
    /\ pc = "uncalled"
    /\ stage = 0
    /\ pos = 0
    /\ chunkbuf = <<>>
    /\ executors = <<>>
    /\ futures = <<>>
    /\ out = <<>>
    /\ error = "none"
    /\ raisedAt = "none"
    /\ eager = [status |-> "none", value |-> <<>>]

\* Nothing else of the package has been used.
OtherIdle ==
    /\ current_val = 0
    /\ fcalls = <<>>
    /\ late = <<>>
    /\ runs = <<>>
    /\ pools = <<>>
    /\ wrapper = [status |-> "none", func |-> "none", executor |-> 0]
    /\ bgExecutors = <<>>
    /\ bgFutures = <<>>
    /\ bgCalls = <<>>
    /\ bgResults = <<>>
    /\ syncCall = [status |-> "none", event_loop |-> "None", loop |-> "none",
                   value |-> PyNone, error |-> "none"]
    /\ task = [awaitable |-> "none", loop |-> "none", left |-> 0, done |-> FALSE,
               ok |-> TRUE, result |-> PyNone]
    /\ loopReady = 0
    /\ procArgs = [stdout_function |-> "none", stderr_function |-> "none",
                   exception_function |-> "none", exit_code_on_killed |-> 0]
    /\ ctl = [pc |-> "uncalled", handlers |-> {}, exc |-> "none", signal |-> "none",
              cause |-> "none", exitcode |-> 0]
    /\ child = [state |-> "none", open |-> {}, terminates |-> 0]
    /\ inherited = {}
    /\ pipes = [s \in {"stdout", "stderr"} |-> <<>>]
    /\ written = [s \in {"stdout", "stderr"} |-> <<>>]
    /\ delivered = [s \in {"stdout", "stderr"} |-> <<>>]
    /\ ready = <<>>
    /\ excCalls = <<>>
    /\ signalsSent = 0

(***************************************************************************)
(* PoolChain.__init__ and the builder calls.                               *)
(***************************************************************************)
BuildInit ==
    /\ chain = <<>>
    /\ lastCall = [op |-> "init", given |-> GivenToAdd(NoArgs), args |-> NoArgs,
                   outcome |-> "ok", returned |-> "self"]
    /\ accepted = <<>>
    /\ input = <<>>
    /\ ExecIdle
    /\ OtherIdle

\* The effect of self.add(**a), reached from the call named op whose caller
\* passed the arguments g.
DoAdd(op, g, a) ==
    /\ chain' = ChainAfterAdd(chain, a)
    /\ lastCall' = [op |-> op, given |-> g, args |-> a, outcome |-> AddOutcome(a),
                    returned |-> AddReturn(a)]
    /\ accepted' = IF AddOutcome(a) = "ok"
                   THEN Append(accepted,
                               ChainElement(a.function, a.executor_class,
                                            a.max_workers, a.timeout, a.chunksize))
                   ELSE accepted
    /\ UNCHANGED <<execVars, otherVars>>

\* A call with a keyword the signature does not have: Python raises TypeError
\* before the body runs.
UnexpectedKeyword(op, g) ==
    /\ lastCall' = [op |-> op, given |-> g, args |-> NoArgs, outcome |-> "TypeError",
                    returned |-> "raised"]
    /\ UNCHANGED <<chain, accepted>>
    /\ UNCHANGED <<execVars, otherVars>>

Add ==
    /\ Len(chain) < MaxChain
    /\ \E a \in AddArgs : DoAdd("add", GivenToAdd(a), a)

AddThreadpool ==
    /\ Len(chain) < MaxChain
    /\ \E t \in ThreadpoolArgs :
          IF t[4] # NotGiven
          THEN UnexpectedKeyword("add_threadpool", Given(t))
          ELSE DoAdd("add_threadpool", Given(t), ThreadpoolCall(t))

AddProcesspool ==
    /\ Len(chain) < MaxChain
    /\ \E t \in ProcesspoolArgs :
          DoAdd("add_processpool", Given(t), ProcesspoolCall(t))

BuildNext == Add \/ AddThreadpool \/ AddProcesspool

SpecBuild == BuildInit /\ [][BuildNext]_vars

(***************************************************************************)
(* Execution.  concurrent.futures.Executor.map(fn, iterable, timeout=,     *)
(* chunksize=) takes every element of its iterable and submits the calls   *)
(* before it returns the iterator of the results; a ProcessPoolExecutor    *)
(* submits one future per chunk of chunksize elements and refuses a        *)
(* chunksize below 1, a ThreadPoolExecutor ignores chunksize.  The result  *)
(* iterator gives the futures' results in submission order and waits for   *)
(* each, at most until the timeout counted from the map call.              *)
(***************************************************************************)
EffChunk(element) ==
    IF element.executor_class = "ProcessPoolExecutor" THEN element.chunksize.val ELSE 1

FutureIndex(p, cs) == ((p - 1) \div cs) + 1

Offset(p, cs) == ((p - 1) % cs) + 1

NewFuture(args) == [args |-> args, state |-> "pending", ok |-> TRUE, vals |-> <<>>]

RECURSIVE Chunks(_, _)
Chunks(xs, cs) ==
    IF xs = <<>> THEN <<>>
    ELSE IF Len(xs) <= cs THEN <<NewFuture(xs)>>
    ELSE <<NewFuture(SubSeq(xs, 1, cs))>> \o Chunks(SubSeq(xs, cs + 1, Len(xs)), cs)

\* Faulty variant of RunChunk: the exception of the call is swallowed.
RunChunkSwallowsException(f, args) ==
    [ok |-> TRUE, vals |-> [i \in 1..Len(args) |-> Apply(f, args[i]).val]]

\* The outcome of one future: fn applied to each element of its chunk.
RunChunk(f, args) ==
    LET rs == [i \in 1..Len(args) |-> Apply(f, args[i])]
    IN  [ok |-> \A i \in 1..Len(args) : rs[i].ok,
         vals |-> [i \in 1..Len(args) |-> rs[i].val]]

\* result_iterator's finally clause: the futures not yet started are cancelled.
CancelPending(fs, from) ==
    [i \in 1..Len(fs) |->
        IF i >= from /\ fs[i].state = "pending"
        THEN [fs[i] EXCEPT !.state = "cancelled"]
        ELSE fs[i]]

\* Faulty variant of EmptyChain: a length check that never fires.
EmptyChainNeverTrue(c) == Len(c) < 0

\* len(self.chain) < 1
EmptyChain(c) == Len(c) < 1

\* Faulty variant of Raise: the exception is recorded and the generator goes on.
RaiseAndGoOn(e) ==
    /\ pc' = pc
    /\ error' = e
    /\ raisedAt' = pc
    /\ eager' = eager

\* An exception leaves the generator; under execute_eager, list() lets it through.
Raise(e) ==
    /\ pc' = "raised"
    /\ error' = e
    /\ raisedAt' = pc
    /\ eager' = IF call = "execute_eager"
                THEN [status |-> "raised", value |-> <<>>]
                ELSE eager

\* The generator returns (StopIteration); under execute_eager, list() returns.
Return ==
    /\ pc' = "returned"
    /\ eager' = IF call = "execute_eager"
                THEN [status |-> "returned", value |-> out]
                ELSE eager

\* The stage loop goes on after the map call of stage k has returned.
AfterMap(k) ==
    /\ pos' = 1
    /\ IF k < Len(chain)
       THEN pc' = "stage" /\ stage' = k + 1
       ELSE pc' = "for" /\ stage' = k

\* execute_lazy(iterable): a generator function; the call runs none of its body.
CallExecuteLazy ==
    /\ pc = "uncalled"
    /\ call' = "execute_lazy"
    /\ pc' = "created"
    /\ UNCHANGED <<buildVars, otherVars, input, consumed, stage, pos, chunkbuf, executors,
                   futures, out, error, raisedAt, eager>>

\* execute_eager(iterable): list(self.execute_lazy(iterable)).
CallExecuteEager ==
    /\ pc = "uncalled"
    /\ call' = "execute_eager"
    /\ pc' = "created"
    /\ eager' = [status |-> "running", value |-> <<>>]
    /\ UNCHANGED <<buildVars, otherVars, input, consumed, stage, pos, chunkbuf, executors,
                   futures, out, error, raisedAt>>

\* The first next(): the body starts, lines 249-253.
GenStart ==
    /\ pc = "created"
    /\ IF EmptyChain(chain)
       THEN /\ Raise("OriValidationError")
            /\ UNCHANGED <<stage, pos>>
       ELSE /\ AfterMap(0)
            /\ UNCHANGED <<error, raisedAt, eager>>
    /\ UNCHANGED <<buildVars, otherVars, input, consumed, call, chunkbuf, executors, futures, out>>

\* One pass of the stage loop up to the map call, lines 254-262.
StageCreate ==
    /\ pc = "stage"
    /\ LET element == chain[stage]
       IN  /\ executors' = Append(executors,
                                  [id |-> Len(executors) + 1,
                                   executor_class |-> element.executor_class,
                                   max_workers |-> element.max_workers,
                                   shutdowns |-> 0])
           /\ IF element.executor_class = "ProcessPoolExecutor" /\ element.chunksize.val < 1
              THEN /\ Raise("ValueError")
                   /\ futures' = Append(futures, <<>>)
                   /\ UNCHANGED <<consumed, stage, pos, chunkbuf>>
              ELSE IF stage = 1
              THEN /\ futures' = Append(futures, Chunks(input, EffChunk(element)))
                   /\ consumed' = Len(input)
                   /\ AfterMap(stage)
                   /\ UNCHANGED <<chunkbuf, error, raisedAt, eager>>
              ELSE /\ futures' = Append(futures, <<>>)
                   /\ pc' = "map"
                   /\ pos' = 1
                   /\ chunkbuf' = <<>>
                   /\ UNCHANGED <<consumed, stage, error, raisedAt, eager>>
    /\ UNCHANGED <<buildVars, otherVars, input, call, out>>

\* Faulty variant of ResultReady: a barrier, the results of a stage are handed
\* on only when the stage has finished all of its futures.
ResultReadyAfterAll(src, fi) ==
    \A i \in 1..Len(futures[src]) : futures[src][i].state = "done"

\* The result iterator of stage src gives the result of its future fi as soon
\* as that future is done (results are taken in submission order).
ResultReady(src, fi) == futures[src][fi].state = "done"

\* map of stage `stage` takes the next result of the stage before it.
MapPull ==
    /\ pc = "map"
    /\ pos <= Len(input)
    /\ LET src == stage - 1
           cs  == EffChunk(chain[src])
           fi  == FutureIndex(pos, cs)
           f   == futures[src][fi]
       IN  /\ ResultReady(src, fi)
           /\ IF ~f.ok
              THEN /\ Raise("StageError")
                   /\ futures' = [futures EXCEPT ![src] = CancelPending(@, fi)]
                   /\ UNCHANGED <<pos, chunkbuf>>
              ELSE LET buf == Append(chunkbuf, f.vals[Offset(pos, cs)])
                   IN  /\ IF Len(buf) = EffChunk(chain[stage])
                          THEN /\ futures' = [futures EXCEPT ![stage] = Append(@, NewFuture(buf))]
                               /\ chunkbuf' = <<>>
                          ELSE /\ chunkbuf' = buf
                               /\ UNCHANGED futures
                       /\ pos' = pos + 1
                       /\ UNCHANGED <<pc, error, raisedAt, eager>>
    /\ UNCHANGED <<buildVars, otherVars, input, consumed, call, stage, executors, out>>

\* The stage before is exhausted: the last chunk is submitted and map returns.
MapReturn ==
    /\ pc = "map"
    /\ pos > Len(input)
    /\ futures' = IF chunkbuf = <<>> THEN futures
                  ELSE [futures EXCEPT ![stage] = Append(@, NewFuture(chunkbuf))]
    /\ chunkbuf' = <<>>
    /\ AfterMap(stage)
    /\ UNCHANGED <<buildVars, otherVars, input, consumed, call, executors, out, error, raisedAt, eager>>

\* The timeout of the stage before expires while map waits for its result.
MapTimeout ==
    /\ pc = "map"
    /\ pos <= Len(input)
    /\ LET src == stage - 1
           cs  == EffChunk(chain[src])
           fi  == FutureIndex(pos, cs)
       IN  /\ chain[src].timeout # PyNone
           /\ Offset(pos, cs) = 1
           /\ futures[src][fi].state \in {"pending", "running"}
           /\ futures' = [futures EXCEPT ![src] = CancelPending(@, fi)]
    /\ Raise("TimeoutError")
    /\ UNCHANGED <<buildVars, otherVars, input, consumed, call, stage, pos, chunkbuf, executors, out>>

\* for item in current_iterable: yield item (lines 263-264), one item.
ForPull ==
    /\ pc = "for"
    /\ pos <= Len(input)
    /\ IF executors = <<>>
       THEN /\ out' = Append(out, input[pos])
            /\ consumed' = pos
            /\ pc' = "yield"
            /\ UNCHANGED <<futures, error, raisedAt, eager>>
       ELSE LET src == Len(executors)
                cs  == EffChunk(chain[src])
                fi  == FutureIndex(pos, cs)
                f   == futures[src][fi]
            IN  /\ f.state = "done"
                /\ IF ~f.ok
                   THEN /\ Raise("StageError")
                        /\ futures' = [futures EXCEPT ![src] = CancelPending(@, fi)]
                        /\ UNCHANGED out
                   ELSE /\ out' = Append(out, f.vals[Offset(pos, cs)])
                        /\ pc' = "yield"
                        /\ UNCHANGED <<futures, error, raisedAt, eager>>
                /\ UNCHANGED consumed
    /\ UNCHANGED <<buildVars, otherVars, input, call, stage, pos, chunkbuf, executors>>

\* The timeout of the last stage expires while the generator waits for an item.
ForTimeout ==
    /\ pc = "for"
    /\ pos <= Len(input)
    /\ executors # <<>>
    /\ LET src == Len(executors)
           cs  == EffChunk(chain[src])
           fi  == FutureIndex(pos, cs)
       IN  /\ chain[src].timeout # PyNone
           /\ Offset(pos, cs) = 1
           /\ futures[src][fi].state \in {"pending", "running"}
           /\ futures' = [futures EXCEPT ![src] = CancelPending(@, fi)]
    /\ Raise("TimeoutError")
    /\ UNCHANGED <<buildVars, otherVars, input, consumed, call, stage, pos, chunkbuf, executors, out>>

\* The consumer asks for the next item: the generator resumes after its yield.
Resume ==
    /\ pc = "yield"
    /\ pc' = "for"
    /\ pos' = pos + 1
    /\ UNCHANGED <<buildVars, otherVars, input, consumed, call, stage, chunkbuf, executors,
                   futures, out, error, raisedAt, eager>>

\* The consumer of execute_lazy asks for another item after the generator
\* raised: a generator an exception has left is finished, next() raises
\* StopIteration and runs none of the body.
NextAfterRaise ==
    /\ pc = "raised"
    /\ call = "execute_lazy"
    /\ pc' = "stopped"
    /\ UNCHANGED <<buildVars, otherVars, input, consumed, call, stage, pos, chunkbuf, executors,
                   futures, out, error, raisedAt, eager>>

\* Faulty variant of ForExhausted: the generator returns without the shutdown loop.
ForExhaustedNoShutdown ==
    /\ pc = "for"
    /\ pos > Len(input)
    /\ Return
    /\ UNCHANGED <<buildVars, otherVars, input, consumed, call, stage, pos, chunkbuf, executors,
                   futures, out, error, raisedAt>>

\* The last stage is exhausted: the for loop ends.
ForExhausted ==
    /\ pc = "for"
    /\ pos > Len(input)
    /\ IF executors = <<>>
       THEN Return /\ UNCHANGED pos
       ELSE pc' = "shutdown" /\ pos' = 1 /\ UNCHANGED eager
    /\ UNCHANGED <<buildVars, otherVars, input, consumed, call, stage, chunkbuf, executors,
                   futures, out, error, raisedAt>>

\* shutdown(wait=True) returns when the pool's futures are all finished.
PoolIdle(k) == \A i \in 1..Len(futures[k]) : futures[k][i].state \in {"done", "cancelled"}

\* Faulty variant of ShutdownAt: the first pool is never shut down.
ShutdownSkipsFirst(exs, k) ==
    IF k = 1 THEN exs ELSE [exs EXCEPT ![k].shutdowns = @ + 1]

\* The executors list after executor.shutdown(wait=True) on its entry k.
ShutdownAt(exs, k) == [exs EXCEPT ![k].shutdowns = @ + 1]

\* for executor in executors: executor.shutdown(wait=True) (lines 265-266), one pool.
ShutdownExecutor ==
    /\ pc = "shutdown"
    /\ pos <= Len(executors)
    /\ PoolIdle(pos)
    /\ executors' = ShutdownAt(executors, pos)
    /\ IF pos = Len(executors)
       THEN Return /\ UNCHANGED pos
       ELSE pos' = pos + 1 /\ UNCHANGED <<pc, eager>>
    /\ UNCHANGED <<buildVars, otherVars, input, consumed, call, stage, chunkbuf, futures, out, error, raisedAt>>

\* A free worker of the pool of stage k takes the oldest waiting future.
Running(k) == Cardinality({i \in 1..Len(futures[k]) : futures[k][i].state = "running"})

WorkerStart(k, i) ==
    /\ futures[k][i].state = "pending"
    /\ \A j \in 1..(i - 1) : futures[k][j].state # "pending"
    /\ \/ executors[k].max_workers = PyNone
       \/ Running(k) < executors[k].max_workers.val
    /\ futures' = [futures EXCEPT ![k][i].state = "running"]
    /\ UNCHANGED <<buildVars, otherVars, input, consumed, call, pc, stage, pos, chunkbuf,
                   executors, out, error, raisedAt, eager>>

\* The worker finishes the call: the future holds its result or its exception.
WorkerFinish(k, i) ==
    /\ futures[k][i].state = "running"
    /\ LET r == RunChunk(chain[k].function, futures[k][i].args)
       IN  futures' = [futures EXCEPT ![k][i] =
                          [args |-> @.args, state |-> "done", ok |-> r.ok, vals |-> r.vals]]
    /\ UNCHANGED <<buildVars, otherVars, input, consumed, call, pc, stage, pos, chunkbuf,
                   executors, out, error, raisedAt, eager>>

Worker ==
    \E k \in 1..Len(futures) : \E i \in 1..Len(futures[k]) :
        WorkerStart(k, i) \/ WorkerFinish(k, i)

(***************************************************************************)
(* execute_lazy_single_threaded / execute_eager_single_threaded: every     *)
(* stage function applied in turn to each item, in the calling thread.     *)
(***************************************************************************)
RECURSIVE ApplyChain(_, _, _)
ApplyChain(c, k, r) ==
    IF k > Len(c) \/ ~r.ok THEN r
    ELSE ApplyChain(c, k + 1, Apply(c[k].function, r.val))

ExecuteEagerSingleThreaded(c, xs) ==
    LET rs == [i \in 1..Len(xs) |-> ApplyChain(c, 1, [ok |-> TRUE, val |-> xs[i]])]
    IN  IF \A i \in 1..Len(xs) : rs[i].ok
        THEN [status |-> "returned", value |-> [i \in 1..Len(xs) |-> rs[i].val]]
        ELSE [status |-> "raised", value |-> <<>>]

(***************************************************************************)
(* The chains and inputs executed: every chain of at most MaxStages stages *)
(* that add accepts among ExecStages, every input of at most MaxItems      *)
(* elements.                                                               *)
(***************************************************************************)
InputValues == {1, 2}

SeqsUpTo(S, n) == UNION {[1..m -> S] : m \in 0..n}

ExecStages ==
    {s \in {ChainElement("double", "ThreadPoolExecutor", PyNone, PyNone, PyInt(1)),
            ChainElement("inc", "ProcessPoolExecutor", PyInt(1), PyNone, PyInt(2)),
            ChainElement("failing", "ThreadPoolExecutor", PyNone, PyInt(1), PyInt(1)),
            ChainElement("double", "ProcessPoolExecutor", PyNone, PyNone, PyInt(0)),
            ChainElement("failing", "ProcessPoolExecutor", PyNone, PyNone, PyInt(2))} :
        AddOutcome(s) = "ok"}

ExecInit ==
    /\ chain \in SeqsUpTo(ExecStages, MaxStages)
    /\ accepted = chain
    /\ lastCall = IF chain = <<>>
                  THEN [op |-> "init", given |-> GivenToAdd(NoArgs), args |-> NoArgs,
                        outcome |-> "ok", returned |-> "self"]
                  ELSE [op |-> "add", given |-> GivenToAdd(chain[Len(chain)]),
                        args |-> chain[Len(chain)], outcome |-> "ok",
                        returned |-> "self"]
    /\ input \in SeqsUpTo(InputValues, MaxItems)
    /\ ExecIdle
    /\ OtherIdle

ExecNext ==
    \/ CallExecuteLazy
    \/ CallExecuteEager
    \/ GenStart
    \/ StageCreate
    \/ MapPull
    \/ MapReturn
    \/ MapTimeout
    \/ ForPull
    \/ ForTimeout
    \/ Resume
    \/ NextAfterRaise
    \/ ForExhausted
    \/ ShutdownExecutor
    \/ Worker

SpecExec == ExecInit /\ [][ExecNext]_vars

(***************************************************************************)
(* execute_lazy_single_threaded as a generator, step by step, and the      *)
(* builder called while a generator is suspended.  The generator reads     *)
(* self.chain when its body runs: `for element in self.chain` is evaluated *)
(* once per item, inside the request for that item.  The consumer of a     *)
(* lazy execution holds control before the first request and between two   *)
(* requests, and may call add then; list() of the eager forms leaves it no *)
(* such moment.                                                            *)
(***************************************************************************)
LazyCalls == {"execute_lazy", "execute_lazy_single_threaded"}

SingleThreadedCalls == {"execute_lazy_single_threaded", "execute_eager_single_threaded"}

\* The stages a consumer appends during an execution.
LateStages ==
    {ChainElement("inc", "ThreadPoolExecutor", PyNone, PyNone, PyInt(1)),
     ChainElement("double", "ThreadPoolExecutor", PyNone, PyNone, PyInt(1))}

\* execute_lazy_single_threaded(iterable): a generator function; the call
\* runs none of its body.
CallExecuteLazySingleThreaded ==
    /\ pc = "uncalled"
    /\ call' = "execute_lazy_single_threaded"
    /\ pc' = "st_created"
    /\ UNCHANGED <<buildVars, otherVars, input, consumed, stage, pos, chunkbuf, executors,
                   futures, out, error, raisedAt, eager>>

\* execute_eager_single_threaded(iterable): list(self.execute_lazy_single_threaded(iterable)).
CallExecuteEagerSingleThreaded ==
    /\ pc = "uncalled"
    /\ call' = "execute_eager_single_threaded"
    /\ pc' = "st_created"
    /\ eager' = [status |-> "running", value |-> <<>>]
    /\ UNCHANGED <<buildVars, otherVars, input, consumed, stage, pos, chunkbuf, executors,
                   futures, out, error, raisedAt>>

\* Faulty variant of StFor: the item after the next one is taken as well.
StForReadsAhead ==
    /\ pc \in {"st_created", "st_for"}
    /\ IF consumed < Len(input)
       THEN /\ consumed' = IF consumed + 1 < Len(input) THEN consumed + 2 ELSE consumed + 1
            /\ current_val' = input[consumed + 1]
            /\ stage' = 1
            /\ pc' = "st_chain"
            /\ UNCHANGED eager
       ELSE /\ pc' = "returned"
            /\ eager' = IF call = "execute_eager_single_threaded"
                        THEN [status |-> "returned", value |-> out]
                        ELSE eager
            /\ UNCHANGED <<consumed, current_val, stage>>
    /\ UNCHANGED <<buildVars, runVars, bgVars, syncVars, procVars, fcalls, late, input,
                   call, pos, chunkbuf, executors, futures, out, error, raisedAt>>

\* for item in iterable: current_val = item (lines 308-309); when the iterable
\* is exhausted the generator returns, and list() with it.
TakeItem ==
    /\ pc \in {"st_created", "st_for"}
    /\ IF consumed < Len(input)
       THEN /\ consumed' = consumed + 1
            /\ current_val' = input[consumed + 1]
            /\ stage' = 1
            /\ pc' = "st_chain"
            /\ UNCHANGED eager
       ELSE /\ pc' = "returned"
            /\ eager' = IF call = "execute_eager_single_threaded"
                        THEN [status |-> "returned", value |-> out]
                        ELSE eager
            /\ UNCHANGED <<consumed, current_val, stage>>
    /\ UNCHANGED <<buildVars, runVars, bgVars, syncVars, procVars, fcalls, late, input,
                   call, pos, chunkbuf, executors, futures, out, error, raisedAt>>

\* Faulty variant of StFor: the single-threaded execution refuses a chain with
\* no stage, as execute_lazy does.
StForValidates ==
    IF EmptyChain(chain)
    THEN /\ pc \in {"st_created", "st_for"}
         /\ pc' = "raised"
         /\ error' = "OriValidationError"
         /\ raisedAt' = pc
         /\ eager' = IF call = "execute_eager_single_threaded"
                     THEN [status |-> "raised", value |-> <<>>]
                     ELSE eager
         /\ UNCHANGED <<buildVars, otherVars, input, consumed, call, stage, pos, chunkbuf,
                        executors, futures, out>>
    ELSE TakeItem

\* The top of the loop of the generator, reached by the first request and by
\* each request after a yield; there is no check of the chain before it.
StFor == TakeItem

\* for element in self.chain: current_val = element.function(current_val)
\* (lines 310-311), one call; an exception of the function leaves the generator.
StApply ==
    /\ pc = "st_chain"
    /\ stage <= Len(chain)
    /\ LET r == Apply(chain[stage].function, current_val)
       IN  /\ fcalls' = Append(fcalls, [stage |-> stage, item |-> consumed,
                                        function |-> chain[stage].function])
           /\ IF r.ok
              THEN /\ current_val' = r.val
                   /\ stage' = stage + 1
                   /\ UNCHANGED <<pc, error, raisedAt, eager>>
              ELSE /\ pc' = "raised"
                   /\ error' = "StageError"
                   /\ raisedAt' = pc
                   /\ eager' = IF call = "execute_eager_single_threaded"
                               THEN [status |-> "raised", value |-> <<>>]
                               ELSE eager
                   /\ UNCHANGED <<current_val, stage>>
    /\ UNCHANGED <<buildVars, runVars, bgVars, syncVars, procVars, late, input, consumed,
                   call, pos, chunkbuf, executors, futures, out>>

\* yield current_val (line 312): the inner loop is over.
StYield ==
    /\ pc = "st_chain"
    /\ stage > Len(chain)
    /\ out' = Append(out, current_val)
    /\ pc' = "st_yield"
    /\ UNCHANGED <<buildVars, otherVars, input, consumed, call, stage, pos, chunkbuf,
                   executors, futures, error, raisedAt, eager>>

\* The consumer asks for the next output: the generator resumes after its yield.
StResume ==
    /\ pc = "st_yield"
    /\ pc' = "st_for"
    /\ UNCHANGED <<buildVars, otherVars, input, consumed, call, stage, pos, chunkbuf,
                   executors, futures, out, error, raisedAt, eager>>

\* The generator of a lazy execution is suspended and its consumer has control.
ConsumerHasControl ==
    /\ call \in LazyCalls
    /\ pc \in {"created", "yield", "st_created", "st_yield"}

\* The consumer calls add(**a) on the PoolChain whose execution it is iterating.
LateAdd ==
    /\ ConsumerHasControl
    /\ Len(chain) < MaxStages
    /\ \E e \in LateStages :
          LET a == CallArgs(e.function, e.executor_class, e.max_workers, e.timeout,
                            e.chunksize)
          IN  /\ chain' = ChainAfterAdd(chain, a)
              /\ lastCall' = [op |-> "add", given |-> GivenToAdd(a), args |-> a,
                              outcome |-> AddOutcome(a), returned |-> AddReturn(a)]
              /\ accepted' = IF AddOutcome(a) = "ok" THEN Append(accepted, e) ELSE accepted
              /\ late' = IF AddOutcome(a) = "ok" THEN Append(late, e) ELSE late
    /\ UNCHANGED <<execVars, runVars, bgVars, syncVars, procVars, current_val, fcalls>>

PipelineNext ==
    \/ ExecNext
    \/ CallExecuteLazySingleThreaded
    \/ CallExecuteEagerSingleThreaded
    \/ StFor
    \/ StApply
    \/ StYield
    \/ StResume
    \/ LateAdd

SpecPipeline == ExecInit /\ [][PipelineNext]_vars

(***************************************************************************)
(* Several executions of one PoolChain.  Each execute_lazy / execute_eager *)
(* call has its own generator with its own local list of executors; the    *)
(* generators advance independently, so a second call may start while the  *)
(* first is suspended or running in another thread.  Here the elements are *)
(* left out: a map call or the for loop may raise where a stage function   *)
(* can raise or a timeout is set.                                          *)
(***************************************************************************)
MaxRuns == 2

\* What a run leaves alone besides the builder's and the single execution's state.
notRunVars == <<singleVars, bgVars, syncVars, procVars>>

\* At most MaxPools pool objects are constructed in all.
MaxPools == 4

RunStages ==
    {s \in ExecStages : s.function # "inc" /\ (s.function = "failing" => s.timeout # PyNone)}

\* Results of this stage may raise: its function raises, or its timeout expires.
MayRaise(element) == element.function = "failing" \/ element.timeout # PyNone

\* Faulty variant of ExecutorId: one pool per stage position, kept between runs.
ExecutorIdOfStage(ps, k) == k

\* The identity of the object element.executor_class(max_workers=...) returns
\* for stage k when the pools ps exist: a constructor call gives a new object.
ExecutorId(ps, k) == Len(ps) + 1

\* The pools once the object id exists.
Constructed(ps, id, element) ==
    IF id \in 1..Len(ps) THEN ps
    ELSE Append(ps, [id |-> id, executor_class |-> element.executor_class,
                     max_workers |-> element.max_workers, shutdowns |-> 0,
                     users |-> {}])

\* Run r calls a method (map, shutdown) of the pool id.
UsedBy(ps, id, r) == [ps EXCEPT ![id].users = @ \cup {r}]

RunsInit ==
    /\ chain \in SeqsUpTo(RunStages, MaxStages)
    /\ accepted = chain
    /\ lastCall = IF chain = <<>>
                  THEN [op |-> "init", given |-> GivenToAdd(NoArgs), args |-> NoArgs,
                        outcome |-> "ok", returned |-> "self"]
                  ELSE [op |-> "add", given |-> GivenToAdd(chain[Len(chain)]),
                        args |-> chain[Len(chain)], outcome |-> "ok",
                        returned |-> "self"]
    /\ input = <<>>
    /\ ExecIdle
    /\ OtherIdle

\* execute_lazy(iterable) is called, by the user or by execute_eager's list():
\* a new generator.
RunCall ==
    /\ Len(runs) < MaxRuns
    /\ runs' = Append(runs, [pc |-> "created", stage |-> 0, executors |-> <<>>])
    /\ UNCHANGED <<buildVars, execVars, notRunVars, pools>>

\* The first next() of run r: lines 249-253.
RunStart(r) ==
    /\ runs[r].pc = "created"
    /\ runs' = [runs EXCEPT ![r].pc = IF EmptyChain(chain) THEN "raised" ELSE "stage",
                            ![r].stage = IF EmptyChain(chain) THEN 0 ELSE 1]
    /\ UNCHANGED <<buildVars, execVars, notRunVars, pools>>

\* One pass of the stage loop of run r, lines 254-262: the pool is constructed,
\* appended to the run's executors, and its map is called.
RunStageCreate(r) ==
    /\ runs[r].pc = "stage"
    /\ Len(pools) < MaxPools
    /\ LET k       == runs[r].stage
           element == chain[k]
           id      == ExecutorId(pools, k)
       IN  /\ pools' = UsedBy(Constructed(pools, id, element), id, r)
           /\ \E raises \in BOOLEAN :
                 /\ raises =>
                       \/ element.executor_class = "ProcessPoolExecutor"
                            /\ element.chunksize.val < 1
                       \/ k > 1 /\ MayRaise(chain[k - 1])
                 /\ ~raises =>
                       ~(element.executor_class = "ProcessPoolExecutor"
                           /\ element.chunksize.val < 1)
                 /\ runs' = [runs EXCEPT
                       ![r].executors = Append(@, id),
                       ![r].pc = IF raises THEN "raised"
                                 ELSE IF k < Len(chain) THEN "stage" ELSE "for",
                       ![r].stage = IF ~raises /\ k < Len(chain) THEN k + 1 ELSE k]
    /\ UNCHANGED <<buildVars, execVars, notRunVars>>

\* The for loop of run r (lines 263-264) is exhausted.
RunForExhausted(r) ==
    /\ runs[r].pc = "for"
    /\ runs' = [runs EXCEPT ![r].pc = "shutdown", ![r].stage = 1]
    /\ UNCHANGED <<buildVars, execVars, notRunVars, pools>>

\* A result of the last stage raises in the for loop of run r.
RunForRaise(r) ==
    /\ runs[r].pc = "for"
    /\ MayRaise(chain[Len(chain)])
    /\ runs' = [runs EXCEPT ![r].pc = "raised"]
    /\ UNCHANGED <<buildVars, execVars, notRunVars, pools>>

\* The shutdown loop of run r (lines 265-266), one pool; then the generator returns.
RunShutdown(r) ==
    /\ runs[r].pc = "shutdown"
    /\ IF runs[r].stage <= Len(runs[r].executors)
       THEN /\ pools' = ShutdownAt(UsedBy(pools, runs[r].executors[runs[r].stage], r),
                                   runs[r].executors[runs[r].stage])
            /\ runs' = [runs EXCEPT ![r].stage = @ + 1]
       ELSE /\ runs' = [runs EXCEPT ![r].pc = "returned"]
            /\ UNCHANGED pools
    /\ UNCHANGED <<buildVars, execVars, notRunVars>>

RunsNext ==
    \/ RunCall
    \/ \E r \in 1..Len(runs) : RunStart(r)
    \/ \E r \in 1..Len(runs) : RunStageCreate(r)
    \/ \E r \in 1..Len(runs) : RunForExhausted(r)
    \/ \E r \in 1..Len(runs) : RunForRaise(r)
    \/ \E r \in 1..Len(runs) : RunShutdown(r)

SpecRuns == RunsInit /\ [][RunsNext]_vars

(***************************************************************************)
(* concurrency.run_in_background(func, executor_class=, max_workers=):     *)
(* the executor is constructed once, when the wrapper is built; every call *)
(* of the wrapper submits func with the call's arguments to it and returns *)
(* the future.  An executor starts the submitted calls in submission order *)
(* on at most max_workers workers; they finish in any order.               *)
(***************************************************************************)
MaxCalls == 2

BgFunctions == {"double", "failing", "five"}

BgMaxWorkers == {PyNone, PyInt(1), PyInt(0)}

\* ThreadPoolExecutor / ProcessPoolExecutor refuse max_workers <= 0.
ExecutorRefuses(max_workers) == max_workers # PyNone /\ max_workers.val <= 0

NewTask(e, f, arg) ==
    [executor |-> e, func |-> f, arg |-> arg, state |-> "pending",
     ok |-> TRUE, val |-> 0]

\* Faulty variant of Submitted: the calls waiting in the queue take the
\* arguments of the newest call.
SubmittedSharesArgs(fs, e, f, arg) ==
    Append([i \in 1..Len(fs) |->
               IF fs[i].state = "pending" THEN [fs[i] EXCEPT !.arg = arg] ELSE fs[i]],
           NewTask(e, f, arg))

\* executor.submit(func, *args): a new future for this call.
Submitted(fs, e, f, arg) == Append(fs, NewTask(e, f, arg))

\* run_in_background_thread(func, max_workers=) / run_in_background_process(...).
BuildWrapper ==
    /\ wrapper.status = "none"
    /\ \E f \in BgFunctions :
       \E cls \in {"ThreadPoolExecutor", "ProcessPoolExecutor"} :
       \E mw \in BgMaxWorkers :
          IF ~IsCallable(f)
          THEN /\ wrapper' = [status |-> "OriValidationError", func |-> f, executor |-> 0]
               /\ UNCHANGED bgExecutors
          ELSE IF ExecutorRefuses(mw)
          THEN /\ wrapper' = [status |-> "ValueError", func |-> f, executor |-> 0]
               /\ UNCHANGED bgExecutors
          ELSE /\ bgExecutors' = Append(bgExecutors,
                                        [executor_class |-> cls, max_workers |-> mw])
               /\ wrapper' = [status |-> "built", func |-> f,
                              executor |-> Len(bgExecutors) + 1]
    /\ UNCHANGED <<buildVars, execVars, singleVars, runVars, syncVars, procVars, bgFutures, bgCalls, bgResults>>

\* wrapper(arg): return executor.submit(func, arg).
CallWrapper ==
    /\ wrapper.status = "built"
    /\ Len(bgCalls) < MaxCalls
    /\ \E arg \in InputValues :
          /\ bgFutures' = Submitted(bgFutures, wrapper.executor, wrapper.func, arg)
          /\ bgCalls' = Append(bgCalls, [arg |-> arg, future |-> Len(bgFutures) + 1])
          /\ bgResults' = Append(bgResults, [got |-> FALSE, ok |-> TRUE, val |-> 0])
    /\ UNCHANGED <<buildVars, execVars, singleVars, runVars, syncVars, procVars, wrapper, bgExecutors>>

BgRunning(e) ==
    Cardinality({i \in 1..Len(bgFutures) :
                    bgFutures[i].executor = e /\ bgFutures[i].state = "running"})

\* A worker of the executor takes the oldest waiting call.
BgWorkerStart(i) ==
    /\ bgFutures[i].state = "pending"
    /\ \A j \in 1..(i - 1) :
          bgFutures[j].executor = bgFutures[i].executor => bgFutures[j].state # "pending"
    /\ LET mw == bgExecutors[bgFutures[i].executor].max_workers
       IN  mw # PyNone => BgRunning(bgFutures[i].executor) < mw.val
    /\ bgFutures' = [bgFutures EXCEPT ![i].state = "running"]
    /\ UNCHANGED <<buildVars, execVars, singleVars, runVars, syncVars, procVars, wrapper, bgExecutors, bgCalls, bgResults>>

\* The call ends: the future holds what func returned, or its exception.
BgWorkerFinish(i) ==
    /\ bgFutures[i].state = "running"
    /\ LET r == Apply(bgFutures[i].func, bgFutures[i].arg)
       IN  bgFutures' = [bgFutures EXCEPT ![i].state = "done", ![i].ok = r.ok,
                                          ![i].val = r.val]
    /\ UNCHANGED <<buildVars, execVars, singleVars, runVars, syncVars, procVars, wrapper, bgExecutors, bgCalls, bgResults>>

\* The caller's future.result() on the future call j returned, once it is done.
GetResult(j) ==
    /\ ~bgResults[j].got
    /\ bgFutures[bgCalls[j].future].state = "done"
    /\ bgResults' = [bgResults EXCEPT ![j] =
                        [got |-> TRUE, ok |-> bgFutures[bgCalls[j].future].ok,
                         val |-> bgFutures[bgCalls[j].future].val]]
    /\ UNCHANGED <<buildVars, execVars, singleVars, runVars, syncVars, procVars, wrapper, bgExecutors, bgFutures, bgCalls>>

BgNext ==
    \/ BuildWrapper
    \/ CallWrapper
    \/ \E i \in 1..Len(bgFutures) : BgWorkerStart(i)
    \/ \E i \in 1..Len(bgFutures) : BgWorkerFinish(i)
    \/ \E j \in 1..Len(bgCalls) : GetResult(j)

SpecBackground == BuildInit /\ [][BgNext]_vars

(***************************************************************************)
(* asyncio.sync(awaitable, event_loop=None): the loop is event_loop, or    *)
(* asyncio.get_event_loop() when none is given, and the call is            *)
(* event_loop.run_until_complete(awaitable).  run_until_complete refuses a *)
(* loop that is already running, makes a task of the awaitable (TypeError  *)
(* for an object that is not awaitable), runs the loop until the task is   *)
(* done and returns the task's result or raises its exception; when the    *)
(* loop is stopped before the task is done it raises RuntimeError.         *)
(***************************************************************************)
MaxAwaits == 2

MaxOthers == 1

\* A coroutine that suspends `awaits` times and then returns val or raises.
Coroutine(awaits, ok, val) ==
    [kind |-> "coroutine", awaits |-> awaits, ok |-> ok, val |-> val]

Awaitables ==
    {Coroutine(n, ok, PyInt(v)) : n \in 0..MaxAwaits, ok \in BOOLEAN, v \in InputValues}
    \cup {[kind |-> "int", awaits |-> 0, ok |-> TRUE, val |-> PyInt(3)]}

EventLoopArgs == {"None", "loopB"}

\* asyncio.get_event_loop()
CurrentLoop == "loopA"

\* Faulty variant of ChooseLoop: the argument is ignored.
ChooseLoopIgnoresArgument(event_loop) == CurrentLoop

\* Lines 46-47: the loop given, else the current one.
ChooseLoop(event_loop) == IF event_loop = "None" THEN CurrentLoop ELSE event_loop

\* sync(awaitable, event_loop) is called, up to the point where the loop runs.
SyncCall ==
    /\ syncCall.status = "none"
    /\ \E aw \in Awaitables : \E el \in EventLoopArgs : \E running \in BOOLEAN :
          LET loop == ChooseLoop(el)
          IN  IF running
              THEN /\ syncCall' = [status |-> "raised", event_loop |-> el, loop |-> loop,
                                   value |-> PyNone, error |-> "RuntimeError"]
                   /\ UNCHANGED <<task, loopReady>>
              ELSE IF aw.kind # "coroutine"
              THEN /\ syncCall' = [status |-> "raised", event_loop |-> el, loop |-> loop,
                                   value |-> PyNone, error |-> "TypeError"]
                   /\ UNCHANGED <<task, loopReady>>
              ELSE /\ syncCall' = [status |-> "running", event_loop |-> el, loop |-> loop,
                                   value |-> PyNone, error |-> "none"]
                   /\ task' = [awaitable |-> aw, loop |-> loop, left |-> aw.awaits,
                               done |-> FALSE, ok |-> TRUE, result |-> PyNone]
                   /\ loopReady' = MaxOthers
    /\ UNCHANGED <<buildVars, execVars, singleVars, runVars, bgVars, procVars>>

\* The loop runs another callback that is ready.
LoopRunsOther ==
    /\ syncCall.status = "running"
    /\ loopReady > 0
    /\ loopReady' = loopReady - 1
    /\ UNCHANGED <<buildVars, execVars, singleVars, runVars, bgVars, procVars, syncCall, task>>

\* The loop runs the task up to its next await.
TaskStep ==
    /\ syncCall.status = "running"
    /\ ~task.done
    /\ task.left > 0
    /\ task' = [task EXCEPT !.left = @ - 1]
    /\ UNCHANGED <<buildVars, execVars, singleVars, runVars, bgVars, procVars, syncCall, loopReady>>

\* The loop runs the task to its end: the task holds the value or the exception.
TaskFinish ==
    /\ syncCall.status = "running"
    /\ ~task.done
    /\ task.left = 0
    /\ task' = [task EXCEPT !.done = TRUE, !.ok = task.awaitable.ok,
                            !.result = task.awaitable.val]
    /\ UNCHANGED <<buildVars, execVars, singleVars, runVars, bgVars, procVars, syncCall, loopReady>>

\* Another callback stops the loop before the task is done.
LoopStoppedEarly ==
    /\ syncCall.status = "running"
    /\ ~task.done
    /\ loopReady > 0
    /\ syncCall' = [syncCall EXCEPT !.status = "raised", !.error = "RuntimeError"]
    /\ loopReady' = loopReady - 1
    /\ UNCHANGED <<buildVars, execVars, singleVars, runVars, bgVars, procVars, task>>

\* Faulty variant of FutureDone: the loop's return is taken for the task's end.
FutureDoneAlways(t) == TRUE

\* future.done() of the task.
FutureDone(t) == t.done

\* The task's done callback has stopped the loop: run_until_complete returns
\* future.result(), and sync returns it.
SyncReturn ==
    /\ syncCall.status = "running"
    /\ FutureDone(task)
    /\ syncCall' = IF task.ok
                   THEN [syncCall EXCEPT !.status = "returned", !.value = task.result]
                   ELSE [syncCall EXCEPT !.status = "raised", !.error = "AwaitableError"]
    /\ UNCHANGED <<buildVars, execVars, singleVars, runVars, bgVars, procVars, task, loopReady>>

SyncNext ==
    \/ SyncCall
    \/ LoopRunsOther
    \/ TaskStep
    \/ TaskFinish
    \/ LoopStoppedEarly
    \/ SyncReturn

SpecSync == BuildInit /\ [][SyncNext]_vars

(***************************************************************************)
(* subprocess.run_process_in_background: a multiprocessing.Process (the    *)
(* control process) runs _target, which starts the command with Popen,     *)
(* installs kill_handler for SIGHUP, SIGTERM and SIGINT, and passes what   *)
(* it reads from the command's stdout and stderr to the callbacks until a  *)
(* read gives no data.  The data is counted in units: a unit is what one   *)
(* read1() returns.  sel.select() gives the readable streams (those with   *)
(* data, or with their write end closed) in no particular order.           *)
(***************************************************************************)
MaxWrites == 2

MaxSignals == 1

Streams == {"stdout", "stderr"}

Signals == {"SIGHUP", "SIGTERM", "SIGINT"}

\* The order of the signal.signal calls, lines 45-47.
HandlerOrder == <<"SIGHUP", "SIGTERM", "SIGINT">>

\* multiprocessing's exitcode of a process the signal killed: -signum.
KilledExitCode(sig) == IF sig = "SIGHUP" THEN 0 - 1 ELSE IF sig = "SIGINT" THEN 0 - 2 ELSE 0 - 15

ProcArgSets ==
    [stdout_function : {"logger", "raising"}, stderr_function : {"logger"},
     exception_function : {"logger", "raising"}, exit_code_on_killed : {0, 7}]

CallbackOf(s) == IF s = "stdout" THEN procArgs.stdout_function
                                 ELSE procArgs.stderr_function

\* The control process ends.
Exit(cause, code) == [ctl EXCEPT !.pc = "exited", !.cause = cause, !.exitcode = code]

\* command_process.terminate(): SIGTERM to the command, which ends if it runs.
Terminated(c) ==
    [state |-> IF c.state = "running" THEN "terminated" ELSE c.state,
     open |-> IF c.state = "running" THEN {} ELSE c.open,
     terminates |-> c.terminates + 1]

\* run_process_in_background(...): the control process is started.
RunProcessInBackground ==
    /\ ctl.pc = "uncalled"
    /\ procArgs' \in ProcArgSets
    /\ ctl' = [ctl EXCEPT !.pc = "start"]
    /\ UNCHANGED <<buildVars, execVars, singleVars, runVars, bgVars, syncVars, inherited, child, pipes,
                   written, delivered, ready, excCalls, signalsSent>>

\* Lines 28-36: the command is started with its stdout and stderr on pipes.
Popen ==
    /\ ctl.pc = "start"
    /\ ctl' = [ctl EXCEPT !.pc = "popened"]
    /\ child' = [state |-> "running", open |-> Streams, terminates |-> 0]
    /\ UNCHANGED <<buildVars, execVars, singleVars, runVars, bgVars, syncVars, inherited, procArgs, pipes,
                   written, delivered, ready, excCalls, signalsSent>>

\* Lines 45-47, one signal.signal call; after the last, lines 51-53.
InstallHandler ==
    /\ ctl.pc = "popened"
    /\ LET n == Cardinality(ctl.handlers) + 1
       IN  ctl' = [ctl EXCEPT !.handlers = @ \cup {HandlerOrder[n]},
                              !.pc = IF n = Len(HandlerOrder) THEN "select" ELSE "popened"]
    /\ UNCHANGED <<buildVars, execVars, singleVars, runVars, bgVars, syncVars, inherited, procArgs, child,
                   pipes, written, delivered, ready, excCalls, signalsSent>>

\* The command writes one unit of data to stream s.
ChildWrite(s) ==
    /\ child.state = "running"
    /\ s \in child.open
    /\ Len(written["stdout"]) + Len(written["stderr"]) < MaxWrites
    /\ LET d == Len(written["stdout"]) + Len(written["stderr"]) + 1
       IN  /\ pipes' = [pipes EXCEPT ![s] = Append(@, d)]
           /\ written' = [written EXCEPT ![s] = Append(@, d)]
    /\ UNCHANGED <<buildVars, execVars, singleVars, runVars, bgVars, syncVars, inherited, procArgs, ctl,
                   child, delivered, ready, excCalls, signalsSent>>

\* The command closes its end of stream s and runs on.
ChildClose(s) ==
    /\ child.state = "running"
    /\ s \in child.open
    /\ child' = [child EXCEPT !.open = @ \ {s}]
    /\ UNCHANGED <<buildVars, execVars, singleVars, runVars, bgVars, syncVars, inherited, procArgs, ctl,
                   pipes, written, delivered, ready, excCalls, signalsSent>>

\* The command exits: both its ends are closed.
ChildExit ==
    /\ child.state = "running"
    /\ child' = [child EXCEPT !.state = "exited", !.open = {}]
    /\ UNCHANGED <<buildVars, execVars, singleVars, runVars, bgVars, syncVars, inherited, procArgs, ctl,
                   pipes, written, delivered, ready, excCalls, signalsSent>>

\* The command starts a process of its own, which inherits the command's
\* ends of the pipes (a shell running a job in the background).
Spawn ==
    /\ child.state = "running"
    /\ inherited = {}
    /\ child.open # {}
    /\ inherited' = child.open
    /\ UNCHANGED <<buildVars, execVars, singleVars, runVars, bgVars, syncVars, procArgs, ctl,
                   child, pipes, written, delivered, ready, excCalls, signalsSent>>

\* The descendant closes its end of stream s, or exits and closes both.
DescendantClose ==
    /\ inherited # {}
    /\ \E S \in (SUBSET inherited) \ {inherited} : inherited' = S
    /\ UNCHANGED <<buildVars, execVars, singleVars, runVars, bgVars, syncVars, procArgs, ctl,
                   child, pipes, written, delivered, ready, excCalls, signalsSent>>

\* Every write end of stream s is closed: the pipe is at end-of-file once empty.
WriteEndsClosed(s) == s \notin child.open /\ s \notin inherited

\* Faulty variant of Readable: end-of-file is not reported, only data.
ReadableOnlyData(s) == pipes[s] # <<>>

\* A stream select reports: it has data, or its write ends are closed (EOF).
Readable(s) == pipes[s] # <<>> \/ WriteEndsClosed(s)

\* sel.select() returns: the readable streams, in some order (line 55).
Select ==
    /\ ctl.pc = "select"
    /\ \E q \in SeqsUpTo(Streams, 2) :
          /\ q # <<>>
          /\ \A i, j \in 1..Len(q) : i # j => q[i] # q[j]
          /\ {q[i] : i \in 1..Len(q)} = {s \in Streams : Readable(s)}
          /\ ready' = q
    /\ ctl' = [ctl EXCEPT !.pc = "iter"]
    /\ UNCHANGED <<buildVars, execVars, singleVars, runVars, bgVars, syncVars, inherited, procArgs, child,
                   pipes, written, delivered, excCalls, signalsSent>>

\* Lines 56-62 for the next key: read1(); no data: return; else the callback.
Read ==
    /\ ctl.pc = "iter"
    /\ ready # <<>>
    /\ LET s == Head(ready)
       IN  IF pipes[s] = <<>>
           THEN /\ ctl' = Exit("returned", 0)
                /\ ready' = <<>>
                /\ UNCHANGED <<pipes, delivered>>
           ELSE /\ pipes' = [pipes EXCEPT ![s] = Tail(@)]
                /\ delivered' = [delivered EXCEPT ![s] = Append(@, Head(pipes[s]))]
                /\ IF CallbackOf(s) = "raising"
                   THEN /\ ctl' = [ctl EXCEPT !.pc = "except", !.exc = "CallbackError"]
                        /\ ready' = <<>>
                   ELSE /\ ctl' = [ctl EXCEPT !.pc = IF Tail(ready) = <<>> THEN "select"
                                                                          ELSE "iter"]
                        /\ ready' = Tail(ready)
    /\ UNCHANGED <<buildVars, execVars, singleVars, runVars, bgVars, syncVars, inherited, procArgs, child,
                   written, excCalls, signalsSent>>

\* The control process is sent sig.  With kill_handler installed for it (lines
\* 38-42): terminate() and SystemExit(exit_code_on_killed), raised where the
\* process is.  Without: SIGHUP and SIGTERM kill the process; SIGINT raises
\* KeyboardInterrupt, inside the try block or, before line 44, outside it.
Signal(sig) ==
    /\ ctl.pc \notin {"uncalled", "exited"}
    /\ signalsSent < MaxSignals
    /\ signalsSent' = signalsSent + 1
    /\ IF sig \in ctl.handlers
       THEN /\ child' = Terminated(child)
            /\ ready' = <<>>
            /\ ctl' = IF ctl.pc \in {"except", "except_term"}
                      THEN [Exit("SystemExit", procArgs.exit_code_on_killed)
                               EXCEPT !.signal = sig]
                      ELSE [ctl EXCEPT !.pc = "except", !.exc = "SystemExit",
                                       !.signal = sig]
       ELSE IF sig # "SIGINT"
       THEN /\ ctl' = [Exit("killed", KilledExitCode(sig)) EXCEPT !.signal = sig]
            /\ UNCHANGED <<child, ready>>
       ELSE /\ \E caught \in BOOLEAN :
                 /\ caught => ctl.pc = "popened"
                 /\ ~caught => (ctl.pc = "start" \/ ctl.handlers = {})
                 /\ ctl' = IF caught
                           THEN [ctl EXCEPT !.pc = "except", !.exc = "KeyboardInterrupt",
                                            !.signal = sig]
                           ELSE [Exit("KeyboardInterrupt", 1) EXCEPT !.signal = sig]
            /\ UNCHANGED <<child, ready>>
    /\ UNCHANGED <<buildVars, execVars, singleVars, runVars, bgVars, syncVars, inherited, procArgs, pipes,
                   written, delivered, excCalls>>

\* Line 64: exception_function(exc); when it raises, its exception leaves _target.
ExceptCallback ==
    /\ ctl.pc = "except"
    /\ excCalls' = Append(excCalls, ctl.exc)
    /\ ctl' = IF procArgs.exception_function = "raising"
              THEN Exit("CallbackError", 1)
              ELSE [ctl EXCEPT !.pc = "except_term"]
    /\ UNCHANGED <<buildVars, execVars, singleVars, runVars, bgVars, syncVars, inherited, procArgs, child,
                   pipes, written, delivered, ready, signalsSent>>

\* Lines 65-66: command_process.terminate(); raise.  The exception leaves
\* _target: the exit code is the code of a SystemExit, 1 for any other.
ExceptTerminate ==
    /\ ctl.pc = "except_term"
    /\ child' = Terminated(child)
    /\ ctl' = Exit(ctl.exc, IF ctl.exc = "SystemExit" THEN procArgs.exit_code_on_killed
                                                     ELSE 1)
    /\ UNCHANGED <<buildVars, execVars, singleVars, runVars, bgVars, syncVars, inherited, procArgs, pipes,
                   written, delivered, ready, excCalls, signalsSent>>

ProcNext ==
    \/ RunProcessInBackground
    \/ Popen
    \/ InstallHandler
    \/ \E s \in Streams : ChildWrite(s)
    \/ \E s \in Streams : ChildClose(s)
    \/ ChildExit
    \/ Spawn
    \/ DescendantClose
    \/ Select
    \/ Read
    \/ \E sig \in Signals : Signal(sig)
    \/ ExceptCallback
    \/ ExceptTerminate

SpecProc == BuildInit /\ [][ProcNext]_vars

\* The steps of the control process: a process the operating system keeps
\* scheduling, so a step of it that stays possible is eventually taken.  The
\* command, its descendant and the senders of signals are not so constrained.
ControlStep ==
    \/ Popen
    \/ InstallHandler
    \/ Select
    \/ Read
    \/ ExceptCallback
    \/ ExceptTerminate

SpecProcFair == SpecProc /\ WF_vars(ControlStep)

(***************************************************************************)
(* Properties of the builder, checked under SpecBuild.                     *)
(***************************************************************************)
BuilderCalls == {"add", "add_threadpool", "add_processpool"}

\* A limit that is provided and is not an integer >= 1.
BadLimit(v) == v # PyNone /\ ~(IsInstanceInt(v) /\ v.val >= 1)

\* C7: an add call that fails with OriValidationError leaves the stage list
\* exactly as it was before the call.
C7_FailedAddKeepsChain ==
    [][lastCall'.outcome = "OriValidationError" => chain' = chain]_vars

\* C7: a lambda was refused for a process pool on a chain that holds a stage.
C7_Witness ==
    /\ lastCall.outcome = "OriValidationError"
    /\ lastCall.args.function = "lambda_times10"
    /\ lastCall.args.executor_class = "ProcessPoolExecutor"
    /\ Len(chain) = 1

\* C8 as stated: every call whose max_workers or timeout is provided and is not
\* an integer >= 1 fails with OriValidationError, and a call that reaches the
\* checks with None or an integer >= 1 for both is accepted.
C8_Original ==
    lastCall.op \in BuilderCalls =>
        /\ (BadLimit(lastCall.args.max_workers) \/ BadLimit(lastCall.args.timeout))
              => lastCall.outcome = "OriValidationError"
        /\ (/\ ReachesLimitChecks(lastCall.args)
            /\ ~BadLimit(lastCall.args.max_workers)
            /\ ~BadLimit(lastCall.args.timeout))
              => lastCall.outcome = "ok"

\* The same for the calls that reach the checks of lines 127-143: there the
\* call fails with OriValidationError exactly when one of the limits is bad.
LimitChecksDecide ==
    (lastCall.op \in BuilderCalls /\ ReachesLimitChecks(lastCall.args)) =>
        /\ (BadLimit(lastCall.args.max_workers) \/ BadLimit(lastCall.args.timeout))
              <=> lastCall.outcome = "OriValidationError"
        /\ (~BadLimit(lastCall.args.max_workers) /\ ~BadLimit(lastCall.args.timeout))
              <=> lastCall.outcome = "ok"

\* C9: the stage list is the sequence of the successful calls' stages in call
\* order; a successful call appends exactly its stage at the end and returns
\* the PoolChain itself, and no call removes or reorders a stage.
C9_ChainIsAcceptedCalls ==
    /\ [](chain = accepted)
    /\ [][\/ /\ lastCall'.outcome = "ok"
             /\ lastCall'.returned = "self"
             /\ chain' = Append(chain,
                                ChainElement(lastCall'.args.function,
                                             lastCall'.args.executor_class,
                                             lastCall'.args.max_workers,
                                             lastCall'.args.timeout,
                                             lastCall'.args.chunksize))
          \/ /\ lastCall'.outcome # "ok"
             /\ lastCall'.returned # "self"
             /\ chain' = chain]_vars

\* C9: two different stages were appended, the second by add_processpool.
C9_Witness ==
    /\ Len(chain) = 2
    /\ chain[1] # chain[2]
    /\ lastCall.op = "add_processpool"
    /\ lastCall.outcome = "ok"
    /\ chain[2].executor_class = "ProcessPoolExecutor"

\* C10 as stated: every stage of the stage list has max_workers None or an
\* integer >= 1, timeout None or an integer >= 1, and chunksize an integer >= 1.
C10_Original ==
    \A i \in 1..Len(chain) :
        /\ ~BadLimit(chain[i].max_workers)
        /\ ~BadLimit(chain[i].timeout)
        /\ IsInstanceInt(chain[i].chunksize) /\ chain[i].chunksize.val >= 1

\* The part of C10 the code enforces: max_workers and timeout of every stage.
StageLimitsValid ==
    \A i \in 1..Len(chain) :
        ~BadLimit(chain[i].max_workers) /\ ~BadLimit(chain[i].timeout)

\* C11 as stated: a builder call whose function argument is not callable fails
\* with OriValidationError, and every stage of the stage list has a callable
\* function.
C11_Original ==
    /\ (lastCall.op \in BuilderCalls /\ lastCall.args # NoArgs
           /\ ~IsCallable(lastCall.args.function))
          => lastCall.outcome = "OriValidationError"
    /\ \A i \in 1..Len(chain) : IsCallable(chain[i].function)

\* The call of add that has the contract of the convenience call lastCall: the
\* caller's arguments with the pool class fixed and chunksize 1 when not given.
EquivalentAdd ==
    CallArgs(lastCall.given.function,
             IF lastCall.op = "add_threadpool" THEN "ThreadPoolExecutor"
                                               ELSE "ProcessPoolExecutor",
             lastCall.given.max_workers, lastCall.given.timeout,
             IF lastCall.given.chunksize = NotGiven THEN PyInt(1)
                                                    ELSE lastCall.given.chunksize)

\* The last builder call did what the call of add EquivalentAdd does: the same
\* outcome and, when accepted, the same stage at the end of the stage list.
SameAsAdd ==
    /\ lastCall.outcome = AddOutcome(EquivalentAdd)
    /\ AddOutcome(EquivalentAdd) = "ok" =>
          /\ chain # <<>>
          /\ chain[Len(chain)] =
                ChainElement(EquivalentAdd.function, EquivalentAdd.executor_class,
                             EquivalentAdd.max_workers, EquivalentAdd.timeout,
                             EquivalentAdd.chunksize)

\* C15 as stated: add_threadpool and add_processpool accept every combination
\* of function, max_workers, timeout and chunksize that add accepts and append
\* the identical stage, and fail as add fails.
C15_Original ==
    lastCall.op \in {"add_threadpool", "add_processpool"} => SameAsAdd

\* C15: add_processpool has the contract of add with ProcessPoolExecutor;
\* add_threadpool has the contract of add with ThreadPoolExecutor for function,
\* max_workers and timeout, the stage's chunksize being 1, and a call that
\* passes it a chunksize fails with TypeError and appends nothing.
C15_ConvenienceMatchesAdd ==
    /\ [](lastCall.op = "add_processpool" => SameAsAdd)
    /\ []((lastCall.op = "add_threadpool" /\ lastCall.given.chunksize = NotGiven)
            => SameAsAdd)
    /\ [][(lastCall'.op = "add_threadpool" /\ lastCall'.given.chunksize # NotGiven)
            => (lastCall'.outcome = "TypeError" /\ chain' = chain)]_vars

\* C15: add_processpool appended a stage with chunksize 2 behind a thread stage.
C15_Witness ==
    /\ Len(chain) = 2
    /\ chain[1].executor_class = "ThreadPoolExecutor"
    /\ lastCall.op = "add_processpool"
    /\ lastCall.given.chunksize = PyInt(2)
    /\ chain[2] = ChainElement("double", "ProcessPoolExecutor", PyNone, PyNone, PyInt(2))

(***************************************************************************)
(* Properties of the execution, checked under SpecExec.                    *)
(***************************************************************************)
AllShutDownOnce ==
    /\ Len(executors) = Len(chain)
    /\ \A k \in 1..Len(executors) : executors[k].shutdowns = 1

\* C1 as stated: for a chain of at least one stage whose functions are total
\* on the input, when no timeout fires, an execute_eager call that has ended
\* returned the list execute_eager_single_threaded returns.
C1_Original ==
    (/\ call = "execute_eager"
     /\ pc \in {"returned", "raised"}
     /\ Len(chain) >= 1
     /\ ExecuteEagerSingleThreaded(chain, input).status = "returned"
     /\ error # "TimeoutError")
        => /\ eager = ExecuteEagerSingleThreaded(chain, input)
           /\ Len(eager.value) = Len(input)

\* The same for the chains whose map calls are not refused (ValueError): the
\* result is the single-threaded one, whatever the order the workers finish in.
EagerEqualsSingleThreaded ==
    (/\ call = "execute_eager"
     /\ pc \in {"returned", "raised"}
     /\ Len(chain) >= 1
     /\ ExecuteEagerSingleThreaded(chain, input).status = "returned"
     /\ error \notin {"TimeoutError", "ValueError"})
        => /\ eager = ExecuteEagerSingleThreaded(chain, input)
           /\ Len(eager.value) = Len(input)

\* C2: when the iteration of execute_lazy ends without an error, every pool
\* created has been shut down exactly once, and no pool is shut down before
\* the last output element was delivered.
C2_ShutdownAfterLastItem ==
    /\ pc = "returned" => AllShutDownOnce
    /\ (\E k \in 1..Len(executors) : executors[k].shutdowns > 0)
          => /\ Len(out) = Len(input)
             /\ pc \in {"shutdown", "returned"}
             /\ \A k \in 1..Len(executors) : executors[k].shutdowns <= 1

\* C2: a consumer of execute_lazy exhausted a two-stage chain over two items.
C2_Witness ==
    /\ call = "execute_lazy"
    /\ pc = "returned"
    /\ Len(executors) = 2
    /\ Len(out) = 2
    /\ \A k \in 1..2 : executors[k].shutdowns = 1

\* C3 as stated: whenever an execute_eager call has ended, by returning or by
\* raising, every pool created during the call has been shut down.
C3_Original ==
    (/\ call = "execute_eager"
     /\ \/ eager.status = "returned"
        \/ eager.status = "raised" /\ error \in {"StageError", "TimeoutError"})
        => \A k \in 1..Len(executors) : executors[k].shutdowns >= 1

\* C3 amended: whenever an execute_eager call has returned the result list,
\* every pool created during the call has been shut down.
C3_TeardownWhenReturned ==
    (call = "execute_eager" /\ eager.status = "returned")
        => /\ AllShutDownOnce
           /\ Len(executors) >= 1

\* C3: execute_eager returned two results of a two-stage chain.
C3_Witness ==
    /\ call = "execute_eager"
    /\ eager.status = "returned"
    /\ Len(eager.value) = 2
    /\ Len(executors) = 2

\* C4: execute_lazy on a chain with no stage fails with OriValidationError,
\* having taken no element of the input and created no pool.
C4_EmptyChainFailsFirst ==
    /\ (Len(chain) = 0 /\ pc \notin {"uncalled", "created"})
          => /\ pc \in {"raised", "stopped"}
             /\ error = "OriValidationError"
             /\ consumed = 0
             /\ executors = <<>>
             /\ out = <<>>
    /\ error = "OriValidationError" => (Len(chain) = 0 /\ consumed = 0 /\ executors = <<>>)

\* C4: the generator of execute_lazy on an empty chain raised, over two items.
C4_Witness ==
    /\ call = "execute_lazy"
    /\ Len(chain) = 0
    /\ Len(input) = 2
    /\ pc = "raised"
    /\ error = "OriValidationError"

\* C5 as stated: on an empty chain the call execute_lazy(...) itself raises
\* OriValidationError, so once the call is over the error has been raised.
C5_Original ==
    (call = "execute_lazy" /\ Len(chain) = 0 /\ pc # "uncalled")
        => error = "OriValidationError"

\* C6 as stated: once the call execute_lazy(xs) has returned, a pool exists
\* for every stage and the input elements have been handed to the first pool.
C6_Original ==
    (call = "execute_lazy" /\ Len(chain) >= 1 /\ pc # "uncalled")
        => /\ Len(executors) >= 1
           /\ consumed = Len(input)

\* What the pipeline makes of the input element at position i: every stage
\* function applied in turn.
ElementResult(i) == ApplyChain(chain, 1, [ok |-> TRUE, val |-> input[i]])

\* The stage function of stage s raises for the input element at position i.
StageRaisesFor(s, i) ==
    /\ ApplyChain(SubSeq(chain, 1, s - 1), 1, [ok |-> TRUE, val |-> input[i]]).ok
    /\ ~ApplyChain(SubSeq(chain, 1, s), 1, [ok |-> TRUE, val |-> input[i]]).ok

SomeElementRaises == \E i \in 1..Len(input) : ~ElementResult(i).ok

\* The first position for which a stage function raises.
FirstRaising == CHOOSE i \in 1..Len(input) :
                    /\ ~ElementResult(i).ok
                    /\ \A j \in 1..(i - 1) : ElementResult(j).ok

EarlierStageRaises ==
    \E s \in 1..(Len(chain) - 1) : \E i \in 1..Len(input) : StageRaisesFor(s, i)

\* The items delivered are the correct results of the first positions, in order.
DeliveredAreCorrect ==
    /\ Len(out) <= Len(input)
    /\ \A i \in 1..Len(out) : ElementResult(i).ok /\ out[i] = ElementResult(i).val

\* C12 as stated: the timeout failure is raised when the result of the element
\* that timed out (position pos) is requested, the items before it having been
\* delivered, and a consumer that asks again after the failure is not told the
\* sequence is over while elements behind pos remain.
C12_Original ==
    error = "TimeoutError" =>
        /\ Len(out) = pos - 1
        /\ pc = "stopped" => pos >= Len(input)

\* C12: when a stage's timeout expires while a result is awaited, TimeoutError
\* is raised to the consumer by the request in progress (the request for that
\* element when the last stage timed out, the first request when an earlier
\* stage did); the items delivered before are correct; the execution is over:
\* no further item is delivered and a further request ends the iteration.
C12_TimeoutEndsExecution ==
    /\ [](error = "TimeoutError" =>
            /\ pc \in {"raised", "stopped"}
            /\ raisedAt \in {"map", "for"}
            /\ raisedAt = "for" => Len(out) = pos - 1
            /\ raisedAt = "map" => out = <<>>
            /\ DeliveredAreCorrect)
    /\ [][error = "TimeoutError" =>
            (out' = out /\ error' = error /\ pc' \in {"raised", "stopped"})]_vars

\* C12: the first of two stages timed out on the first of two elements, and the
\* consumer of execute_lazy asked again.
C12_Witness ==
    /\ error = "TimeoutError"
    /\ pc = "stopped"
    /\ raisedAt = "map"
    /\ Len(chain) = 2
    /\ Len(input) = 2
    /\ pos = 1

\* C13 as stated: when a stage function raises for position k and no earlier
\* one, the consumer has received exactly the correct results of the positions
\* before k when it receives the error, whichever stage raised.
C13_Original ==
    error = "StageError" =>
        /\ SomeElementRaises
        /\ Len(out) = FirstRaising - 1
        /\ DeliveredAreCorrect

\* C13: when a stage function raises for position k and no earlier one, the
\* execution does not end normally; the consumer that receives the error has
\* received correct results, in order, of positions before k only.  When only
\* the last stage raises, the error comes at the request for the first
\* position of the chunk of k (position k itself with one element per future);
\* when a stage before the last raises, it comes at the first request, before
\* any result.
C13_ErrorDelivery ==
    /\ SomeElementRaises => pc # "returned"
    /\ error = "StageError" =>
          /\ SomeElementRaises
          /\ Len(out) < FirstRaising
          /\ DeliveredAreCorrect
          /\ IF EarlierStageRaises
             THEN out = <<>> /\ raisedAt = "map"
             ELSE /\ raisedAt = "for"
                  /\ Len(out) = ((FirstRaising - 1) \div EffChunk(chain[Len(chain)]))
                                  * EffChunk(chain[Len(chain)])

\* C13: the last of two stages raised for the second element after the first
\* element's result was delivered.
C13_Witness ==
    /\ error = "StageError"
    /\ call = "execute_lazy"
    /\ Len(chain) = 2
    /\ FirstRaising = 2
    /\ Len(out) = 1
    /\ raisedAt = "for"

(***************************************************************************)
(* Properties of several executions of one PoolChain, checked under        *)
(* SpecRuns.                                                               *)
(***************************************************************************)
PoolsOf(r) == {runs[r].executors[k] : k \in 1..Len(runs[r].executors)}

\* C14: every run has constructed one pool for each stage its stage loop has
\* passed (one per stage of the chain once the loop is over), of the stage's
\* class; every pool belongs to exactly one run and only that run has called
\* its methods, however the runs follow each other or overlap.
C14_FreshPoolsPerRun ==
    /\ \A r \in 1..Len(runs) :
          /\ Cardinality(PoolsOf(r)) = Len(runs[r].executors)
          /\ \A k \in 1..Len(runs[r].executors) :
                /\ runs[r].executors[k] \in 1..Len(pools)
                /\ pools[runs[r].executors[k]].users = {r}
                /\ pools[runs[r].executors[k]].executor_class = chain[k].executor_class
          /\ runs[r].pc = "stage" => Len(runs[r].executors) = runs[r].stage - 1
          /\ runs[r].pc \in {"for", "shutdown", "returned"}
                => Len(runs[r].executors) = Len(chain)
    /\ \A r1, r2 \in 1..Len(runs) : r1 # r2 => PoolsOf(r1) \cap PoolsOf(r2) = {}
    /\ \A p \in 1..Len(pools) : \E r \in 1..Len(runs) : p \in PoolsOf(r)

\* C14: a second run of a two-stage chain started and returned while the first
\* run of the same chain was suspended in its for loop.
C14_Witness ==
    /\ Len(chain) = 2
    /\ Len(runs) = 2
    /\ runs[1].pc = "for"
    /\ runs[2].pc = "returned"
    /\ runs[1].executors = <<1, 2>>
    /\ runs[2].executors = <<3, 4>>

(***************************************************************************)
(* Properties of run_in_background, checked under SpecBackground.          *)
(***************************************************************************)
\* C19: every call of the wrapper has submitted exactly one task, to the one
\* executor constructed when the wrapper was built (wrapper.executor), and has
\* its own future; what result() gives on the future of a call is func applied
\* to the argument of that call, in whatever order the tasks finish and the
\* results are asked for.
C19_OwnResultPerCall ==
    /\ wrapper.status = "built" =>
          (Len(bgExecutors) = 1 /\ wrapper.executor = 1 /\ IsCallable(wrapper.func))
    /\ wrapper.status # "built" => (bgExecutors = <<>> /\ bgCalls = <<>>)
    /\ Len(bgFutures) = Len(bgCalls)
    /\ \A j \in 1..Len(bgCalls) :
          /\ bgCalls[j].future \in 1..Len(bgFutures)
          /\ \A k \in 1..Len(bgCalls) : k # j => bgCalls[k].future # bgCalls[j].future
          /\ bgFutures[bgCalls[j].future].executor = wrapper.executor
          /\ bgFutures[bgCalls[j].future].func = wrapper.func
          /\ bgFutures[bgCalls[j].future].arg = bgCalls[j].arg
          /\ bgResults[j].got =>
                /\ bgResults[j].ok = Apply(wrapper.func, bgCalls[j].arg).ok
                /\ bgResults[j].val = Apply(wrapper.func, bgCalls[j].arg).val

\* C19: two calls with different arguments; the second call's task finished and
\* its result was taken while the first call's task was still running.
C19_Witness ==
    /\ Len(bgCalls) = 2
    /\ bgCalls[1].arg # bgCalls[2].arg
    /\ wrapper.func = "double"
    /\ bgFutures[bgCalls[1].future].state = "running"
    /\ bgResults[2].got
    /\ bgResults[2].val = 2 * bgCalls[2].arg

(***************************************************************************)
(* Properties of sync, checked under SpecSync.                             *)
(***************************************************************************)
\* C20: when sync has returned, the awaitable has run to completion on the
\* loop given (the current loop when none was given) and the value returned is
\* the value the awaitable produces; sync has not returned, and has not raised
\* the awaitable's exception, before the awaitable completed.
C20_SyncReturnsAwaitedValue ==
    /\ syncCall.status = "returned" =>
          /\ task.done
          /\ task.left = 0
          /\ task.awaitable.ok
          /\ syncCall.value = task.awaitable.val
          /\ task.loop = syncCall.loop
          /\ syncCall.loop = IF syncCall.event_loop = "None" THEN CurrentLoop
                                                             ELSE syncCall.event_loop
    /\ (syncCall.status = "raised" /\ syncCall.error = "AwaitableError") =>
          (task.done /\ task.left = 0 /\ ~task.awaitable.ok)

\* C20: sync returned 2 from a coroutine that suspended twice, run on the loop
\* passed as event_loop.
C20_Witness ==
    /\ syncCall.status = "returned"
    /\ syncCall.event_loop = "loopB"
    /\ syncCall.loop = "loopB"
    /\ task.awaitable.awaits = 2
    /\ syncCall.value = PyInt(2)

(***************************************************************************)
(* Properties of run_process_in_background, checked under SpecProc.        *)
(***************************************************************************)
\* C16 as stated, for a command that writes and then exits: when the control
\* process has finished by returning from its loop, every unit the command
\* wrote to stdout was passed to stdout_function and every unit written to
\* stderr to stderr_function.
C16_Original ==
    (ctl.pc = "exited" /\ ctl.cause = "returned" /\ child.state = "exited")
        => \A s \in Streams : delivered[s] = written[s]

\* What the callbacks were given is, in order, the beginning of what was written.
DeliveredIsPrefix ==
    \A s \in Streams :
        /\ Len(delivered[s]) <= Len(written[s])
        /\ delivered[s] = SubSeq(written[s], 1, Len(delivered[s]))

\* C17 as stated: no state has the control process ended by SIGHUP, SIGTERM or
\* SIGINT with the command left running and never sent terminate(), and a
\* control process that such a signal ended has exit code exit_code_on_killed.
C17_Original ==
    (ctl.pc = "exited" /\ ctl.signal # "none" /\ child.state # "none") =>
        /\ ~(child.state = "running" /\ child.terminates = 0)
        /\ ctl.exitcode = procArgs.exit_code_on_killed

\* A signal that arrives once its kill_handler is installed: the command has
\* been sent terminate() and does not run on when the control process ends.
HandledSignalTerminates ==
    (ctl.pc = "exited" /\ ctl.signal # "none" /\ ctl.signal \in ctl.handlers) =>
        (child.terminates >= 1 /\ child.state # "running")

\* C18 as stated: when a callback raised while the output was streamed (no
\* signal arrived, exception_function returned), exception_function was called
\* exactly once, with that exception, the command was terminated, and the
\* control process exited with exit code exit_code_on_killed.
C18_Original ==
    (/\ ctl.pc = "exited"
     /\ ctl.exc = "CallbackError"
     /\ ctl.signal = "none"
     /\ procArgs.exception_function = "logger") =>
        /\ excCalls = <<"CallbackError">>
        /\ child.terminates >= 1
        /\ child.state # "running"
        /\ ctl.exitcode = procArgs.exit_code_on_killed

\* The part of C18 the code keeps: one call of exception_function with the
\* exception and the command terminated; the exit code is 1.
CallbackErrorHandled ==
    (/\ ctl.pc = "exited"
     /\ ctl.exc = "CallbackError"
     /\ ctl.signal = "none"
     /\ procArgs.exception_function = "logger") =>
        /\ excCalls = <<"CallbackError">>
        /\ child.terminates >= 1
        /\ child.state # "running"
        /\ ctl.exitcode = 1

(***************************************************************************)
(* Claims about the stage list during an execution and about the           *)
(* single-threaded execution, checked under SpecPipeline.                  *)
(***************************************************************************)
\* The stage list as it was when the execute_* call was made.
Snapshot == SubSeq(chain, 1, Len(chain) - Len(late))

\* What the stages cs make of the i-th input element.
Through(cs, i) == ApplyChain(cs, 1, [ok |-> TRUE, val |-> input[i]])

\* C21 as stated: a lazy execution works on the stage list taken at the call,
\* so every output it has delivered is the one the stages present at the call
\* give, whatever add has appended since.
C21_Original ==
    call \in LazyCalls =>
        \A i \in 1..Len(out) : out[i] = Through(Snapshot, i).val

\* Once the stage loop of execute_lazy is over, the pools are wired: a stage
\* appended between two elements changes no output of that execution.
LateAddAfterWiringIgnored ==
    (call = "execute_lazy" /\ pc \in {"for", "yield", "shutdown", "returned"}) =>
        \A i \in 1..Len(out) : out[i] = Through(SubSeq(chain, 1, Len(executors)), i).val


\* How many calls of the function of stage s have been made.
CallsOfStage(s) == Cardinality({n \in 1..Len(fcalls) : fcalls[n].stage = s})

\* The consumer of the single-threaded execution has its k outputs and has
\* made no further request: before the first, after a yield, after the end.
FetchedAndIdle ==
    /\ call \in SingleThreadedCalls
    /\ pc \in {"st_created", "st_yield", "returned"}

\* C23: in the single-threaded execution, when the consumer has fetched k
\* outputs, k input elements have been taken and every stage of the pipeline
\* that was executed has been called k times; the calls for one element are
\* made in stage order from the first stage on, and all calls for an element
\* come before the next element is taken.
C23_OneElementAtATime ==
    /\ FetchedAndIdle =>
          /\ consumed = Len(out)
          /\ \A s \in 1..Len(Snapshot) : CallsOfStage(s) = Len(out)
    /\ call \in SingleThreadedCalls =>
          /\ consumed \in {Len(out), Len(out) + 1}
          /\ \A n \in 1..Len(fcalls) :
                /\ fcalls[n].item <= consumed
                /\ fcalls[n].function = chain[fcalls[n].stage].function
                /\ IF n > 1 /\ fcalls[n - 1].item = fcalls[n].item
                   THEN fcalls[n].stage = fcalls[n - 1].stage + 1
                   ELSE /\ fcalls[n].stage = 1
                        /\ n > 1 => fcalls[n].item = fcalls[n - 1].item + 1

\* C23: the consumer of execute_lazy_single_threaded has fetched the first of
\* two outputs of a two-stage chain, and the second element is still untaken.
C23_Witness ==
    /\ call = "execute_lazy_single_threaded"
    /\ pc = "st_yield"
    /\ Len(out) = 1
    /\ Len(input) = 2
    /\ Len(Snapshot) = 2
    /\ Len(fcalls) = 2

\* C24: on a pipeline with no stage the single-threaded executions do not
\* fail and give the input elements unchanged, in order, while execute_lazy
\* and execute_eager raise OriValidationError and give nothing.
C24_EmptyChainSingleThreaded ==
    chain = <<>> =>
        /\ call \in SingleThreadedCalls =>
              /\ error = "none"
              /\ pc # "raised"
              /\ out = SubSeq(input, 1, Len(out))
              /\ pc = "returned" => out = input
              /\ eager.status \in {"none", "running", "returned"}
              /\ eager.status = "returned" => eager.value = input
        /\ (call \in {"execute_lazy", "execute_eager"} /\ pc \notin {"uncalled", "created"}) =>
              /\ error = "OriValidationError"
              /\ out = <<>>
              /\ call = "execute_eager" => eager.status = "raised"

\* C24: execute_eager_single_threaded on a chain with no stage returned the
\* two elements of its input.
C24_Witness ==
    /\ chain = <<>>
    /\ call = "execute_eager_single_threaded"
    /\ eager.status = "returned"
    /\ Len(eager.value) = 2
    /\ eager.value = input

\* The pooled counterpart of the C24 witness: execute_eager on the same chain raised.
EmptyChainEagerRaised ==
    /\ chain = <<>>
    /\ call = "execute_eager"
    /\ Len(input) = 2
    /\ eager.status = "raised"
    /\ error = "OriValidationError"

(***************************************************************************)
(* Streaming between the stages of one execution, checked under SpecExec.  *)
(***************************************************************************)
\* The result stage k has for input position p, once its future is done.
ResultAt(k, p) ==
    futures[k][FutureIndex(p, EffChunk(chain[k]))].vals[Offset(p, EffChunk(chain[k]))]

\* The input position of argument j of future i of stage k.
PositionOf(k, i, j) == (i - 1) * EffChunk(chain[k]) + j

\* C22: there is no barrier between two stages.  While map feeds stage i+1,
\* the next result of stage i is handed on as soon as its own future is done,
\* whatever the state of the later futures of stage i; and what stage i+1 is
\* given is the output of stage i, position by position, in input order.
C22_StagesStream ==
    /\ (/\ pc = "map"
        /\ pos <= Len(input)
        /\ futures[stage - 1][FutureIndex(pos, EffChunk(chain[stage - 1]))].state = "done")
           => ENABLED MapPull
    /\ \A k \in 2..Len(futures) : \A i \in 1..Len(futures[k]) :
          \A j \in 1..Len(futures[k][i].args) :
             LET p == PositionOf(k, i, j)
                 f == futures[k - 1][FutureIndex(p, EffChunk(chain[k - 1]))]
             IN  /\ f.state = "done"
                 /\ f.ok
                 /\ futures[k][i].args[j] = ResultAt(k - 1, p)

\* C22: the pool of the second stage is processing the first element while
\* the pool of the first stage has not started its last one.
C22_Witness ==
    /\ pc = "map"
    /\ stage = 2
    /\ Len(futures[1]) >= 2
    /\ Len(futures[2]) >= 1
    /\ futures[2][1].state = "running"
    /\ futures[1][Len(futures[1])].state = "pending"


(***************************************************************************)
(* Termination of the control process, checked under SpecProcFair.         *)
(***************************************************************************)
\* The command is over and no process holds a write end of its two pipes.
CommandOverAndPipesClosed ==
    /\ child.state \in {"exited", "terminated"}
    /\ \A s \in Streams : WriteEndsClosed(s)

BlockedByDescendant ==
    /\ ctl.pc = "select"
    /\ child.state = "exited"
    /\ inherited # {}
    /\ ~ENABLED Select

=============================================================================
